---- MODULE Spec2Model ----
(***************************************************************************)
(* Model of fireflies_downloader.py: main, FirefliesDownloader             *)
(* .save_transcripts (the backfill loop), get_transcripts (listing query)  *)
(* and get_transcript_content (detail query), run against a remote GraphQL *)
(* server and an output directory.                                         *)
(*                                                                         *)
(* Times are integers in milliseconds.  A naive local datetime is the      *)
(* number of milliseconds of its wall-clock reading; the process's local   *)
(* UTC offset is the variable tz.                                          *)
(***************************************************************************)
EXTENDS Integers, Sequences, FiniteSets

(* ------------------------------------------------------------------ *)
(* Program constants                                                    *)
(* ------------------------------------------------------------------ *)
SecMs == 1000                 \* int(date) / 1000 ; timedelta(seconds=1)
HourMs == 3600 * SecMs
DayMs == 24 * HourMs          \* strftime('%Y-%m-%d')
PageLimit == 25               \* save_transcripts: get_transcripts(limit=25, ...)
MaxLimit == 25                \* get_transcripts: min(limit, 25)
TitleMax == 50                \* safe_title[:50]

(* ------------------------------------------------------------------ *)
(* Bounds of the model                                                  *)
(* ------------------------------------------------------------------ *)
ServerPageMax == 2            \* the server returns at most this many records per page
LimitMax == 27                \* a caller of get_transcripts asks for 0..LimitMax records

(* ------------------------------------------------------------------ *)
(* Python values                                                        *)
(* ------------------------------------------------------------------ *)
None == << >>
Some(x) == << x >>
Val(o) == o[1]

NoDate == -1                  \* a record whose "date" is null / not an integer

Min(a, b) == IF a <= b THEN a ELSE b

(* ------------------------------------------------------------------ *)
(* The environment: clock, time zone, remote records, caller input      *)
(* ------------------------------------------------------------------ *)
NowMs == 9000                 \* datetime.now(), as epoch milliseconds
TzOffsets == {0, HourMs, -HourMs}

Summary(i, d, t) == [id |-> i, date |-> d, title |-> t, form |-> "summary"]
T1 == Summary(1, 5500, <<"a", "&">>)
T2 == Summary(2, 4000, <<"a">>)
T3 == Summary(3, 2000, <<"b">>)
T4 == Summary(4, NoDate, <<"b">>)
RemoteUniverse == {T1, T2, T3, T4}
ToDates == {None, Some(6000), Some(4500)}

Corrupt == [id |-> 0, date |-> NoDate, title |-> << >>, form |-> "corrupt"]
OtherName == <<7, <<"z">>>>
InitialNames == {<<0, <<"a">>>>, OtherName}
InitialContents == RemoteUniverse \cup {Corrupt}
InitialDirs == UNION {[N -> InitialContents] : N \in SUBSET InitialNames}
\* os.listdir: the names of a directory in any order
Orders(S) == {o \in [1..Cardinality(S) -> S] : \A i, j \in DOMAIN o : i # j => o[i] # o[j]}
ApiKeys == {"absent", "set"}

(* ------------------------------------------------------------------ *)
(* Conversions                                                          *)
(* ------------------------------------------------------------------ *)
\* datetime.fromtimestamp(int(date) / 1000): epoch ms -> naive local datetime
FromTimestamp(ms, off) == ms + off

\* to_date.strftime("%Y-%m-%dT%H:%M:%S.000Z"): the naive datetime's reading down to
\* the second, sent with a Z suffix, so the server reads it as UTC epoch ms
FormatToDate(dt) == IF dt = None THEN None ELSE Some(Val(dt) - (Val(dt) % SecMs))

\* date_obj.strftime('%Y-%m-%d')
DayOf(dt) == dt \div DayMs

IsAlnum(c) == c \in {"a", "b", "z"}
IsSafeChar(c) == IsAlnum(c) \/ c \in {" ", "-", "_", "."}
\* ''.join(c for c in title if c.isalnum() or c in (' ', '-', '_', '.'))
SafeTitle(t) == SelectSeq(t, IsSafeChar)
Truncate(s, n) == SubSeq(s, 1, Min(Len(s), n))
\* f"{date_obj.strftime('%Y-%m-%d')}_{safe_title[:50]}.json"
FileName(obj, off) ==
    << DayOf(FromTimestamp(obj.date, off)), Truncate(SafeTitle(obj.title), TitleMax) >>

(* ------------------------------------------------------------------ *)
(* The server                                                           *)
(* ------------------------------------------------------------------ *)
Newer(a, b) == a.date > b.date \/ (a.date = b.date /\ a.id < b.id)
RECURSIVE NewestFirst(_)
NewestFirst(S) ==
    IF S = {} THEN << >>
    ELSE LET top == CHOOSE r \in S : \A q \in S \ {r} : Newer(r, q)
         IN  << top >> \o NewestFirst(S \ {top})

\* transcripts(limit, toDate): records with date < toDate, newest first, at most
\* the number asked for and at most the server's own page maximum
ServerPage(records, asked, toDate) ==
    LET match == {r \in records : toDate = None \/ r.date < Val(toDate)}
        all == NewestFirst(match)
    IN  SubSeq(all, 1, Min(Len(all), Min(asked, ServerPageMax)))

\* transcript(id): the record with sentences and summary
Detail(r) == [r EXCEPT !.form = "detail"]

ListKinds == {"ok", "absent", "no_data_key", "no_transcripts_key", "data_null"}
DetailKinds == {"ok", "http_error", "transport", "errors", "null", "missing_keys"}

(* ------------------------------------------------------------------ *)
(* State                                                                *)
(* ------------------------------------------------------------------ *)
VARIABLES
    tz,             \* local UTC offset of the process, in ms
    remote,         \* the server's transcripts
    to_date,        \* save_transcripts' argument: None or a naive datetime
    files,          \* the output directory: file name -> parsed content
    run,            \* 1: first call of save_transcripts, 2: the call repeated
    pc,             \* "main", "exit", "call_list", "returned", "start", "list",
                    \* "records", "done", "aborted"
    existing_ids,   \* save_transcripts' local existing_ids
    last_date,      \* the watermark, a naive datetime
    result,         \* shape of the last listing response of this run ("none" before)
    transcripts,    \* the page being processed
    idx,            \* position of the for loop in the page
    earliest_date,  \* None or the earliest date_obj of this page
    files0,         \* the directory as it was before the first run
    filesRun,       \* the directory as it was when this run started
    sent,           \* the toDate variable of the last listing request
    prevMin,        \* earliest date of the page before the last listing request
    fetched,        \* ids detail-fetched in this run
    refetched,      \* ids detail-fetched more than once in this run
    lastSaved,      \* None or the last write: summary, detail answer, object, name
    prevResult,     \* result as the previous run left it ("none" in the first run)
    entry,          \* what is run: "main", "call" (save_transcripts), "list" (get_transcripts)
    api_key,        \* FIREFLIES_API_KEY: "absent" or "set"
    listing,        \* the order in which main's os.listdir gives the file names
    limit,          \* the limit argument of get_transcripts
    dir_exists,     \* the output directory exists
    dir_read,       \* the output directory has been listed
    sentLimit,      \* None or the limit variable of the last listing request
    prevSent        \* None or the toDate variable of the listing request before the last

vars == << tz, remote, to_date, files, run, pc, existing_ids, last_date, result,
           transcripts, idx, earliest_date, files0, filesRun, sent, prevMin,
           fetched, refetched, lastSaved, prevResult, entry, api_key, listing,
           limit, dir_exists, dir_read, sentLimit, prevSent >>

caller == << tz, remote, files0, entry, api_key, listing, limit >>
env == << caller, to_date >>
hist == << env, prevResult >>
dirState == << dir_exists, dir_read >>
requests == << sentLimit, prevSent >>

(* ------------------------------------------------------------------ *)
(* save_transcripts: the pieces of its body                             *)
(* ------------------------------------------------------------------ *)
\* the scan reads nothing: every file is passed over by the bare except
ExistingIds_FindsNone(dir) == {}

\* one try around the whole loop: an unparsable file leaves the set empty
ExistingIds_StopsAtBadFile(dir) ==
    IF \E f \in DOMAIN dir : dir[f] = Corrupt THEN {} ELSE {dir[f].id : f \in DOMAIN dir}

\* lines 119-129: ids of the files that parse; a file that does not is passed over
ExistingIds(dir) == {dir[f].id : f \in {g \in DOMAIN dir : dir[g] # Corrupt}}

\* line 131: last_date = to_date or datetime.now()
StartDate(arg, off) == IF arg # None THEN Val(arg) ELSE FromTimestamp(NowMs, off)

\* the limit is sent as asked for
RequestLimit_NoClamp(asked) == asked

\* get_transcripts, lines 87-90: the variables of the listing request
RequestLimit(asked) == Min(asked, MaxLimit)

\* the loop breaks on an absent response only
EndsLoop_OnlyAbsent(kind, page) == kind = "absent"

\* lines 134-141: the loop breaks on an absent or keyless response and on an empty page
EndsLoop(kind, page) == kind \in {"absent", "no_data_key", "no_transcripts_key"} \/ page = << >>

\* line 134: "transcripts" not in result["data"] raises TypeError when data is null
ListingRaises(kind) == kind = "data_null"

\* the membership test never succeeds
IsExisting_Never(t, ids) == FALSE

\* line 148: transcript['id'] in existing_ids
IsExisting(t, ids) == t.id \in ids

\* get_transcript_content, lines 54-68: None on non-200, errors payload, transport
\* failure, and when data.transcript is null; else data["data"]["transcript"]
GetTranscriptContent(t, kind) == IF kind = "ok" THEN Some(Detail(t)) ELSE None

\* line 64: data["data"]["transcript"] raises KeyError when the keys are missing
DetailRaises(kind) == kind = "missing_keys"

\* the detail answer is dropped
Persisted_KeepsSummary(t, content) == t

\* lines 156-157: if content: transcript = content
Persisted(t, content) == IF content # None THEN Val(content) ELSE t

\* line 160: int(transcript["date"]) raises on a null or non-numeric date
DateRaises(obj) == obj.date = NoDate

\* lines 166-167: open(filepath, 'w') ; json.dump
WriteFile(dir, name, obj) ==
    [f \in DOMAIN dir \cup {name} |-> IF f = name THEN obj ELSE dir[f]]

\* lines 172-173: if earliest_date is None or date_obj < earliest_date
NextEarliest(earliest, date_obj) ==
    IF earliest = None \/ date_obj < Val(earliest) THEN Some(date_obj) ELSE earliest

\* the else: break of line 182 left out: the loop goes on with the watermark it had
AfterPage_NoBreak(earliest, last) ==
    [pc |-> "list", last_date |-> IF earliest # None THEN Val(earliest) - SecMs ELSE last]

\* lines 177-182: with earliest_date set the watermark moves one second before it and
\* the loop goes on; otherwise the loop breaks
AfterPage(earliest, last) ==
    IF earliest # None
    THEN [pc |-> "list", last_date |-> Val(earliest) - SecMs]
    ELSE [pc |-> "done", last_date |-> last]

\* earliest epoch date among the dated records of a page (None when there is none)
PageMin(page) ==
    LET ds == {page[i].date : i \in {j \in 1..Len(page) : page[j].date # NoDate}}
    IN  IF ds = {} THEN None ELSE Some(CHOOSE d \in ds : \A e \in ds : d <= e)

(* ------------------------------------------------------------------ *)
(* main: the pieces of its body                                         *)
(* ------------------------------------------------------------------ *)
\* the test of line 186 left out
KeyMissing_Never(key) == FALSE

\* lines 185-186: api_key = os.getenv(...) ; if not api_key
KeyMissing(key) == key = "absent"

\* lines 200-202: json.load or int(data["date"]) raises on the file
FileRaises(data) == data = Corrupt \/ data.date = NoDate

\* lines 197-209: the for loop over the listing stands inside one try: the first file
\* that raises ends the loop, with earliest_date as it is by then
RECURSIVE ScanDates(_, _, _, _, _)
ScanDates(dir, order, i, earliest, off) ==
    IF i > Len(order) THEN earliest
    ELSE IF FileRaises(dir[order[i]]) THEN earliest
    ELSE ScanDates(dir, order, i + 1,
                   NextEarliest(earliest, FromTimestamp(dir[order[i]].date, off)), off)

\* lines 193-196: earliest_date stays None without a directory or without files
MainWatermark(dir, order, exists, off) ==
    IF exists THEN ScanDates(dir, order, 1, None, off) ELSE None

(* ------------------------------------------------------------------ *)
(* Initial states: main, save_transcripts or get_transcripts is about   *)
(* to be called                                                         *)
(* ------------------------------------------------------------------ *)
InitCall ==
    /\ entry = "call"
    /\ pc = "start"
    /\ to_date \in ToDates
    /\ files \in InitialDirs
    /\ api_key = "set"
    /\ listing = << >>
    /\ limit = PageLimit

InitMain ==
    /\ entry = "main"
    /\ pc = "main"
    /\ to_date = None
    /\ files \in InitialDirs
    /\ api_key \in ApiKeys
    /\ listing \in Orders(DOMAIN files)
    /\ limit = PageLimit

InitList ==
    /\ entry = "list"
    /\ pc = "call_list"
    /\ to_date \in ToDates
    /\ files \in {d \in InitialDirs : DOMAIN d = {}}
    /\ api_key = "set"
    /\ listing = << >>
    /\ limit \in 0..LimitMax

Init ==
    /\ tz \in TzOffsets
    /\ remote \in SUBSET RemoteUniverse
    /\ (InitCall \/ InitMain \/ InitList)
    /\ dir_exists \in (IF DOMAIN files = {} THEN BOOLEAN ELSE {TRUE})
    /\ dir_read = FALSE
    /\ sentLimit = None
    /\ prevSent = None
    /\ run = 1
    /\ existing_ids = {}
    /\ last_date = 0
    /\ result = "none"
    /\ transcripts = << >>
    /\ idx = 1
    /\ earliest_date = None
    /\ files0 = files
    /\ filesRun = files
    /\ sent = None
    /\ prevMin = None
    /\ fetched = {}
    /\ refetched = {}
    /\ lastSaved = None
    /\ prevResult = "none"

(* ------------------------------------------------------------------ *)
(* Actions                                                              *)
(* ------------------------------------------------------------------ *)
\* main, lines 185-212: without the key it returns; with it, it reads the dates of
\* the files of the directory and calls save_transcripts(to_date=earliest_date)
Main ==
    /\ pc = "main"
    /\ IF KeyMissing(api_key)
       THEN /\ pc' = "exit"
            /\ UNCHANGED << to_date, dir_read >>
       ELSE /\ pc' = "start"
            /\ to_date' = MainWatermark(files, listing, dir_exists, tz)
            /\ dir_read' = dir_exists
    /\ UNCHANGED << caller, prevResult, files, run, existing_ids, last_date, result,
                    transcripts, idx, earliest_date, filesRun, sent, prevMin, fetched,
                    refetched, lastSaved, dir_exists, requests >>

\* get_transcripts(limit, to_date) called by itself, lines 87-109: one listing request;
\* the response is returned as it is, None for an errors payload or a transport failure
CallGetTranscripts ==
    /\ pc = "call_list"
    /\ \E kind \in ListKinds :
        LET toDate == FormatToDate(to_date)
        IN  /\ result' = kind
            /\ sent' = toDate
            /\ sentLimit' = Some(RequestLimit(limit))
            /\ transcripts' = IF kind = "ok"
                              THEN ServerPage(remote, RequestLimit(limit), toDate)
                              ELSE << >>
    /\ pc' = "returned"
    /\ UNCHANGED << hist, files, run, existing_ids, last_date, idx, earliest_date,
                    filesRun, prevMin, fetched, refetched, lastSaved, dirState,
                    prevSent >>

\* lines 115-131: make the directory if need be, scan it, set the watermark
Scan ==
    /\ pc = "start"
    /\ dir_exists' = TRUE
    /\ dir_read' = TRUE
    /\ sentLimit' = None
    /\ prevSent' = None
    /\ existing_ids' = ExistingIds(files)
    /\ last_date' = StartDate(to_date, tz)
    /\ filesRun' = files
    /\ result' = "none"
    /\ transcripts' = << >>
    /\ idx' = 1
    /\ earliest_date' = None
    /\ sent' = None
    /\ prevMin' = None
    /\ fetched' = {}
    /\ refetched' = {}
    /\ lastSaved' = None
    /\ pc' = "list"
    /\ UNCHANGED << hist, files, run >>

\* lines 133-145 with get_transcripts (87-109): one listing request and its answer
GetTranscripts ==
    /\ pc = "list"
    /\ \E kind \in ListKinds :
        LET toDate == FormatToDate(Some(last_date))
            page == IF kind = "ok"
                    THEN ServerPage(remote, RequestLimit(limit), toDate)
                    ELSE << >>
        IN  /\ result' = kind
            /\ sent' = toDate
            /\ prevSent' = sent
            /\ sentLimit' = Some(RequestLimit(limit))
            /\ prevMin' = IF result = "ok" THEN PageMin(transcripts) ELSE None
            /\ IF ListingRaises(kind)
               THEN /\ pc' = "aborted"
                    /\ UNCHANGED << transcripts, idx, earliest_date >>
               ELSE IF EndsLoop(kind, page)
               THEN /\ pc' = "done"
                    /\ transcripts' = page
                    /\ UNCHANGED << idx, earliest_date >>
               ELSE /\ pc' = "records"
                    /\ transcripts' = page
                    /\ idx' = 1
                    /\ earliest_date' = None
    /\ UNCHANGED << hist, files, run, existing_ids, last_date, filesRun, fetched,
                    refetched, lastSaved, dirState >>

\* lines 146-150: a record whose id is in existing_ids is passed over
SkipRecord ==
    /\ pc = "records"
    /\ idx <= Len(transcripts)
    /\ IsExisting(transcripts[idx], existing_ids)
    /\ idx' = idx + 1
    /\ UNCHANGED << hist, files, run, pc, existing_ids, last_date, result, transcripts,
                    earliest_date, filesRun, sent, prevMin, fetched, refetched,
                    lastSaved, dirState, requests >>

\* lines 152-175 with get_transcript_content (46-68): fetch the detail, write the file
SaveRecord ==
    /\ pc = "records"
    /\ idx <= Len(transcripts)
    /\ ~IsExisting(transcripts[idx], existing_ids)
    /\ \E kind \in DetailKinds :
        LET t == transcripts[idx]
            content == GetTranscriptContent(t, kind)
            obj == Persisted(t, content)
            date_obj == FromTimestamp(obj.date, tz)
            name == FileName(obj, tz)
        IN  /\ fetched' = fetched \cup {t.id}
            /\ refetched' = IF t.id \in fetched THEN refetched \cup {t.id} ELSE refetched
            /\ IF DetailRaises(kind) \/ DateRaises(obj)
               THEN /\ pc' = "aborted"
                    /\ UNCHANGED << files, idx, earliest_date, lastSaved >>
               ELSE /\ files' = WriteFile(files, name, obj)
                    /\ earliest_date' = NextEarliest(earliest_date, date_obj)
                    /\ lastSaved' = Some([summary |-> t, answer |-> kind,
                                           object |-> obj, name |-> name])
                    /\ idx' = idx + 1
                    /\ pc' = pc
    /\ UNCHANGED << hist, run, existing_ids, last_date, result, transcripts, filesRun,
                    sent, prevMin, dirState, requests >>

\* lines 177-182: after the page, move the watermark or stop
EndPage ==
    /\ pc = "records"
    /\ idx > Len(transcripts)
    /\ pc' = AfterPage(earliest_date, last_date).pc
    /\ last_date' = AfterPage(earliest_date, last_date).last_date
    /\ UNCHANGED << hist, files, run, existing_ids, result, transcripts, idx,
                    earliest_date, filesRun, sent, prevMin, fetched, refetched,
                    lastSaved, dirState, requests >>

\* save_transcripts is called again with the same argument over the same directory
SecondRun ==
    /\ pc = "done"
    /\ entry = "call"
    /\ run = 1
    /\ run' = 2
    /\ pc' = "start"
    /\ prevResult' = result
    /\ result' = "none"
    /\ transcripts' = << >>
    /\ UNCHANGED << env, files, existing_ids, last_date, idx, earliest_date, filesRun,
                    sent, prevMin, fetched, refetched, lastSaved, dirState, requests >>

Next ==
    \/ Main
    \/ CallGetTranscripts
    \/ Scan
    \/ GetTranscripts
    \/ SkipRecord
    \/ SaveRecord
    \/ EndPage
    \/ SecondRun

Spec == Init /\ [][Next]_vars

(* ------------------------------------------------------------------ *)
(* Definitions used by the properties                                   *)
(* ------------------------------------------------------------------ *)
Dated(S) == {r \in S : r.date # NoDate}
Parsed(dir) == {f \in DOMAIN dir : dir[f] # Corrupt}
IdsIn(dir) == {dir[f].id : f \in Parsed(dir)}

\* the toDate of the first listing request of a run, as the server reads it
StartWatermark == Val(FormatToDate(Some(StartDate(to_date, tz))))

\* the run ended by the loop's own breaks, every listing request having been answered
\* with a page
CompletedOnPages == pc = "done" /\ result = "ok"

\* every record of the page is already in existing_ids
AllDuplicates(page) == \A i \in 1..Len(page) : page[i].id \in existing_ids

\* the for loop has gone through the whole page
PageProcessed == pc = "records" /\ idx > Len(transcripts)

\* two different ids would be written under one file name: two remote records, or
\* a remote record and a file that was in the directory before the first run
NameClash ==
    \E r \in Dated(remote) :
        \/ \E q \in Dated(remote) : q.id # r.id /\ FileName(q, tz) = FileName(r, tz)
        \/ \E f \in Parsed(files0) : f = FileName(r, tz) /\ files0[f].id # r.id

DistinctIds(dir) == \A f, g \in Parsed(dir) : f # g => dir[f].id # dir[g].id

(* ------------------------------------------------------------------ *)
(* C1  Completeness of the backfill                                     *)
(* ------------------------------------------------------------------ *)
\* C1: when a run in UTC has completed with every listing request answered by a page,
\* every remote transcript dated before the starting watermark is an id that was in
\* existing_ids at startup or the content of a file of the output directory.
C1_Completeness ==
    (run = 1 /\ CompletedOnPages /\ tz = 0) =>
        \A r \in Dated(remote) :
            r.date < StartWatermark => r.id \in existing_ids \/ r.id \in IdsIn(files)

(* ------------------------------------------------------------------ *)
(* C2  Idempotence of a run                                             *)
(* ------------------------------------------------------------------ *)
\* the first run ended with every listing request answered by a page
FirstRunCompleted == run = 2 /\ pc # "start" /\ prevResult = "ok"

\* C2 as stated: during and after a second run over the same directory with the same
\* remote data, the first run having completed, the directory is as the second run
\* found it, for every set of remote records.
C2_SecondRunChangesNothing == FirstRunCompleted => files = filesRun

\* C2 amended: the same, provided no two different ids share a file name (among the
\* remote records and the files present before the first run).
C2_SecondRunChangesNothingNoClash ==
    (FirstRunCompleted /\ ~NameClash) => files = filesRun

\* C2 witness: a second run that met already-saved records has completed, the first
\* run having written files, with no file-name clash.
C2_Witness ==
    /\ FirstRunCompleted /\ pc = "done" /\ ~NameClash
    /\ files # files0
    /\ transcripts # << >>

(* ------------------------------------------------------------------ *)
(* C3  Each transcript handled at most once per run                     *)
(* ------------------------------------------------------------------ *)
\* C3: within one run no id is detail-fetched (and so written) more than once.
C3_FetchedAtMostOnce == refetched = {}

(* ------------------------------------------------------------------ *)
(* C4, C5  A page of duplicates                                         *)
(* ------------------------------------------------------------------ *)
\* a whole page of already-saved records, one of them dated, has been gone through
DuplicatePageProcessed ==
    PageProcessed /\ AllDuplicates(transcripts) /\ PageMin(transcripts) # None

\* C4: after a page whose records are all in existing_ids (one of them dated) the
\* loop ends: the next step of the run is its completion, no further request.
C4_DuplicatePageEndsLoop == [][DuplicatePageProcessed => pc' = "done"]_vars

\* C4 witness: the run has completed on such a page.
C4_Witness ==
    /\ pc = "done" /\ result = "ok" /\ transcripts # << >>
    /\ AllDuplicates(transcripts) /\ PageMin(transcripts) # None

\* C5: after such a page the watermark moves to one second before the earliest date
\* of the page and the loop goes on to a further listing request.
C5_DuplicatePageAdvances ==
    [][DuplicatePageProcessed =>
        /\ pc' = "list"
        /\ last_date' = FromTimestamp(Val(PageMin(transcripts)), tz) - SecMs]_vars

(* ------------------------------------------------------------------ *)
(* C6  Watermark update between pages                                   *)
(* ------------------------------------------------------------------ *)
\* every remote date falls on a whole second
WholeSeconds == \A r \in Dated(remote) : r.date % SecMs = 0

\* C6: the toDate of a listing request that follows a page is the earliest date among
\* that page's records minus one second (stated here for a process in UTC and remote
\* dates on whole seconds, where no conversion of the date plays a part).
C6_NextToDate ==
    (tz = 0 /\ WholeSeconds /\ result # "none" /\ prevMin # None) =>
        sent = Some(Val(prevMin) - SecMs)

(* ------------------------------------------------------------------ *)
(* C7  Detail/summary merge                                             *)
(* ------------------------------------------------------------------ *)
\* C7: the object of the last write is the summary record when the detail fetch was
\* absent (non-200, transport failure, errors payload) and the detail object when
\* there was one; it is the content of the file written.
C7_PersistedObject ==
    lastSaved # None =>
        LET s == Val(lastSaved)
        IN  /\ s.answer \in {"http_error", "transport", "errors"} => s.object = s.summary
            /\ s.answer = "ok" => s.object = Detail(s.summary)
            /\ s.name \in DOMAIN files /\ files[s.name] = s.object

\* C7 witness: a record was written after its detail fetch failed in transport.
C7_Witness ==
    /\ lastSaved # None
    /\ Val(lastSaved).answer = "transport"
    /\ files[Val(lastSaved).name].form = "summary"

(* ------------------------------------------------------------------ *)
(* C8  ID uniqueness                                                    *)
(* ------------------------------------------------------------------ *)
\* C8: if the files present before the first run hold pairwise distinct ids, then in
\* every state no two files of the directory hold the same id.
C8_DistinctIds == DistinctIds(files0) => DistinctIds(files)

\* C8 witness: a run has written a file next to another parsed file, and a record of
\* the page was already saved.
C8_Witness ==
    /\ DistinctIds(files0)
    /\ lastSaved # None
    /\ Cardinality(Parsed(files)) >= 2
    /\ \E i \in 1..Len(transcripts) : transcripts[i].id \in existing_ids

(* ------------------------------------------------------------------ *)
(* C9  No failure is fatal                                              *)
(* ------------------------------------------------------------------ *)
\* C9: a run never ends aborted by an unhandled error.
C9_NeverAborts == pc # "aborted"

(* ------------------------------------------------------------------ *)
(* C10  End of data without retry                                       *)
(* ------------------------------------------------------------------ *)
\* the last listing response was absent, lacked the expected keys, or was an empty page
EndOfData ==
    \/ result \in {"absent", "no_data_key", "no_transcripts_key"}
    \/ result = "ok" /\ transcripts = << >>

\* C10: from such a response to a request of the backfill loop on, the run is
\* complete; every request and write of the run needs pc to be "list" or "records",
\* so none follows.
C10_EndOfDataEndsRun == (entry # "list" /\ EndOfData) => pc = "done"

\* C10 witness: a run that had saved a record ended on a response without the
\* transcripts key.
C10_Witness == result = "no_transcripts_key" /\ pc = "done" /\ lastSaved # None

(* ------------------------------------------------------------------ *)
(* C11  Existing-output scan                                            *)
(* ------------------------------------------------------------------ *)
\* save_transcripts has scanned the directory
Scanned == pc \in {"list", "records", "done", "aborted"}

\* C11: when the parsable files found at the start of save_transcripts hold pairwise
\* distinct ids, existing_ids is the set of those ids and has as many members as
\* there are parsable files, whatever unparsable files stand beside them.
C11_ScanFindsEveryId ==
    (Scanned /\ DistinctIds(filesRun)) =>
        /\ existing_ids = IdsIn(filesRun)
        /\ Cardinality(existing_ids) = Cardinality(Parsed(filesRun))

\* C11 witness: the scan met an unparsable file and a parsable one.
C11_Witness ==
    /\ Scanned /\ DistinctIds(filesRun)
    /\ \E f \in DOMAIN filesRun : filesRun[f] = Corrupt
    /\ Cardinality(existing_ids) = 1

(* ------------------------------------------------------------------ *)
(* C12  Resume watermark                                                *)
(* ------------------------------------------------------------------ *)
\* the files main can read a date from
ValidFiles(dir) == {f \in DOMAIN dir : ~FileRaises(dir[f])}
MinDate(dir) ==
    LET ds == {dir[f].date : f \in ValidFiles(dir)}
    IN  CHOOSE d \in ds : \A e \in ds : d <= e

\* main has called save_transcripts
MainCalled == entry = "main" /\ pc \notin {"main", "exit"}

\* C12: the to_date main passes to save_transcripts is the datetime of the minimum
\* date over the valid files of the directory, whatever invalid files there are and
\* wherever they stand in the listing; with no valid file it is None.
C12_ResumeWatermark ==
    MainCalled =>
        to_date = IF ValidFiles(files0) = {}
                  THEN None
                  ELSE Some(FromTimestamp(MinDate(files0), tz))

(* ------------------------------------------------------------------ *)
(* C13  Page-size clamp                                                 *)
(* ------------------------------------------------------------------ *)
\* C13: the limit variable of a listing request is at most 25 and is the limit asked
\* for when that is 25 or less; every request of the backfill loop carries 25.
C13_LimitClamped ==
    sentLimit # None =>
        /\ Val(sentLimit) <= 25
        /\ limit <= 25 => Val(sentLimit) = limit
        /\ entry # "list" => Val(sentLimit) = 25

\* C13 witness: a caller asked get_transcripts for more than 25 records and 25 were
\* requested.
C13_Witness == entry = "list" /\ pc = "returned" /\ limit > 25 /\ sentLimit = Some(25)

(* ------------------------------------------------------------------ *)
(* C14  Missing secret                                                  *)
(* ------------------------------------------------------------------ *)
\* main runs without the API key in the environment
NoKey == entry = "main" /\ api_key = "absent"

\* C14: without the API key main only returns: no listing or detail request is made,
\* the output directory is neither listed nor created, and no file is written.
C14_NoKeyNoEffect ==
    /\ [](NoKey =>
            /\ pc \in {"main", "exit"}
            /\ result = "none" /\ sent = None /\ sentLimit = None
            /\ fetched = {}
            /\ ~dir_read
            /\ files = files0)
    /\ [][NoKey => (dir_exists' = dir_exists /\ files' = files)]_vars

\* C14 witness: main has returned for want of the key, and there is no output directory.
C14_Witness == NoKey /\ pc = "exit" /\ ~dir_exists

(* ------------------------------------------------------------------ *)
(* C15  Skip leaves everything unchanged                                *)
(* ------------------------------------------------------------------ *)
\* the for loop stands at a record whose id is in existing_ids
AtDuplicate ==
    pc = "records" /\ idx <= Len(transcripts) /\ transcripts[idx].id \in existing_ids

\* C15: the step over such a record makes no detail request and leaves the output
\* directory, names and contents, as it was.
C15_SkipChangesNothing ==
    [][AtDuplicate =>
        /\ files' = files
        /\ fetched' = fetched /\ refetched' = refetched
        /\ lastSaved' = lastSaved]_vars

\* C15 witness: a record of the page has just been passed over, the directory holding
\* files.
C15_Witness ==
    /\ pc = "records" /\ idx > 1
    /\ transcripts[idx - 1].id \in existing_ids
    /\ DOMAIN files # {}

(* ------------------------------------------------------------------ *)
(* C16  Decreasing watermark                                            *)
(* ------------------------------------------------------------------ *)
\* C16: the server returning only records dated before the toDate it is sent, the
\* toDate of each listing request of a run is earlier than that of the request before.
C16_ToDateDecreases == prevSent # None => Val(sent) < Val(prevSent)

====
